---- MODULE Spec2Model ----
(***************************************************************************)
(* State-machine model of the WindowManager class of src/script.js: the    *)
(* per-window lifecycle, the focus/stacking counter, the drag and resize   *)
(* pointer sessions and the viewport containment pass.                     *)
(*                                                                         *)
(* Every event handler and every public method is one atomic action (the   *)
(* page is single-threaded).  Lengths are CSS pixels, kept as integers.    *)
(***************************************************************************)
EXTENDS Integers, FiniteSets, Sequences, TLC

VARIABLES
    windows,               \* this.windows[app]: state, originalPosition, originalSize
    classList,             \* element.classList of each window, cut to the flags used
    style,                 \* element.style of each window: left, top, width, height, zIndex
    activeWindow,          \* this.activeWindow
    maxZIndex,             \* this.maxZIndex
    dragging,              \* this.dragging
    dragOffset,            \* this.dragOffset
    currentDraggedWindow,  \* this.currentDraggedWindow
    resizing,              \* this.resizing
    resizeTarget,          \* this.resizeTarget
    resizeDirection,       \* this.resizeDirection
    resizeStart,           \* this.resizeStart
    viewport,              \* document.documentElement.clientWidth / clientHeight
    dockActive,            \* 'active' class of each dock icon
    events,                \* number of pointer moves and viewport changes so far
    last                   \* the handler that ran last, its target and its input

vars == <<windows, classList, style, activeWindow, maxZIndex, dragging, dragOffset,
          currentDraggedWindow, resizing, resizeTarget, resizeDirection, resizeStart,
          viewport, dockActive, events, last>>

-----------------------------------------------------------------------------
(* Bounds of the exploration *)

\* bringToFront is explored until the counter has been raised this often
MaxRaises == 3
\* raises of the stacking counter explored in SpecGeometry
MaxGestures == 2
\* pointer moves plus viewport changes explored per behaviour
MaxEvents == 1

-----------------------------------------------------------------------------
(* Program constants *)

ZSeed == 200
menuBarHeight == 30
viewportPadding == 12
TearOffY == 50
MinWidthFull == 400
MinWidthNarrow == 240
MinHeightFull == 300
MinHeightNarrow == 220

null == "null"

\* the .window elements found by init(); "ghost" is a name no window carries
Registered == {"about", "projects"}
Names == Registered \cup {"ghost"}
\* names that own a dock icon
DockApps == Names

Directions == {"top", "right", "bottom", "left",
               "top-left", "top-right", "bottom-left", "bottom-right"}

\* direction.includes(part)
includes(direction, part) ==
    CASE part = "top"    -> direction \in {"top", "top-left", "top-right"}
      [] part = "bottom" -> direction \in {"bottom", "bottom-left", "bottom-right"}
      [] part = "left"   -> direction \in {"left", "top-left", "bottom-left"}
      [] part = "right"  -> direction \in {"right", "top-right", "bottom-right"}

-----------------------------------------------------------------------------
(* Inputs *)

\* viewport sizes: desktop, small, narrow (working area below the 240/220
\* thresholds of getMinDimensions), degenerate (no room left after the padding)
Viewports == { [width |-> 1200, height |-> 800],
               [width |-> 600,  height |-> 400],
               [width |-> 260,  height |-> 270],
               [width |-> 20,   height |-> 40] }

\* pointer positions of mousemove; a captured pointer also reports positions
\* outside the viewport
PointerXs == {-100, 0, 400, 1000}
PointerYs == {-60, 30, 500}

\* where inside the title bar a drag grabs the window, from its top-left corner
GrabPoints == { [x |-> 20, y |-> 10] }

\* the boxes the style sheet gives the windows before any script moves them
InitialBox(w) ==
    IF w = "about" THEN [left |-> 100, top |-> 60,  width |-> 600, height |-> 400]
                   ELSE [left |-> 500, top |-> 120, width |-> 800, height |-> 700]

Min(a, b) == IF a < b THEN a ELSE b
Max(a, b) == IF a > b THEN a ELSE b

-----------------------------------------------------------------------------
(* The manager and the page as one value, so that a method can call another *)

Cur == [windows |-> windows, classList |-> classList, style |-> style,
        activeWindow |-> activeWindow, maxZIndex |-> maxZIndex,
        dockActive |-> dockActive]

Apply(s) ==
    /\ windows' = s.windows
    /\ classList' = s.classList
    /\ style' = s.style
    /\ activeWindow' = s.activeWindow
    /\ maxZIndex' = s.maxZIndex
    /\ dockActive' = s.dockActive

\* a number used as a condition: 0 is falsy
Truthy(n) == n # 0

\* Math.min(Math.max(value, min), max)
clamp(value, min, max) == Min(Max(value, min), max)

\* computed display of a window is 'none': the style sheet hides a window
\* that is closed or minimized
IsHidden(s, w) == s.windows[w].state \in {"closed", "minimized"}

\* the box the style sheet gives a maximized window: the viewport below the menu bar
MaximizedBox(vp) ==
    [left |-> 0, top |-> menuBarHeight,
     width |-> vp.width, height |-> Max(0, vp.height - menuBarHeight)]

\* element.getBoundingClientRect(); offsetWidth/offsetHeight are its width/height
getBoundingClientRect(s, w, vp) ==
    IF IsHidden(s, w)
    THEN [left |-> 0, top |-> 0, width |-> 0, height |-> 0]
    ELSE IF "maximized" \in s.classList[w]
    THEN MaximizedBox(vp)
    ELSE [left |-> s.style[w].left, top |-> s.style[w].top,
          width |-> s.style[w].width, height |-> s.style[w].height]

getMinDimensions(vp) ==
    LET horizontalSpace == Max(0, vp.width - viewportPadding * 2)
        verticalSpace == Max(0, vp.height - menuBarHeight - viewportPadding * 2)
    IN [width  |-> IF horizontalSpace <= MinWidthNarrow
                   THEN horizontalSpace ELSE Min(MinWidthFull, horizontalSpace),
        height |-> IF verticalSpace <= MinHeightNarrow
                   THEN verticalSpace ELSE Min(MinHeightFull, verticalSpace)]

\* updateDockIcon that can only add the class
updateDockIconAdding(s, appName, isActive) ==
    IF appName \in DockApps
    THEN [s EXCEPT !.dockActive[appName] = TRUE]
    ELSE s

updateDockIcon(s, appName, isActive) ==
    IF appName \in DockApps
    THEN [s EXCEPT !.dockActive[appName] = isActive]
    ELSE s

\* bringToFront that leaves the other windows' active flag alone
bringToFrontKeepingFlags(s, appName) ==
    IF appName \notin Registered THEN s
    ELSE [s EXCEPT
            !.maxZIndex = s.maxZIndex + 1,
            !.style[appName].zIndex = s.maxZIndex + 1,
            !.activeWindow = appName,
            !.classList[appName] = @ \cup {"active"}]

\* bringToFront that assigns the counter before incrementing it
bringToFrontStaleOrder(s, appName) ==
    IF appName \notin Registered THEN s
    ELSE [s EXCEPT
            !.maxZIndex = s.maxZIndex + 1,
            !.style[appName].zIndex = s.maxZIndex,
            !.activeWindow = appName,
            !.classList = [w \in Registered |->
                             IF w = appName
                             THEN s.classList[w] \cup {"active"}
                             ELSE s.classList[w] \ {"active"}]]

bringToFront(s, appName) ==
    IF appName \notin Registered THEN s
    ELSE [s EXCEPT
            !.maxZIndex = s.maxZIndex + 1,
            !.style[appName].zIndex = s.maxZIndex + 1,
            !.activeWindow = appName,
            !.classList = [w \in Registered |->
                             IF w = appName
                             THEN s.classList[w] \cup {"active"}
                             ELSE s.classList[w] \ {"active"}]]

\* the desktop element's getBoundingClientRect(): it fills the viewport
desktopRect == [left |-> 0, top |-> 0]

\* newLeft that takes the padding for the desktop's offset
newLeftShifted(updatedRect, vp) ==
    LET padding == viewportPadding
        relativeLeft == updatedRect.left - padding
        maxLeft == vp.width - updatedRect.width - padding
    IN clamp(relativeLeft, padding, Max(padding, maxLeft))

\* newLeft whose upper bound forgets the padding
newLeftUnpadded(updatedRect, vp) ==
    LET padding == viewportPadding
        relativeLeft == updatedRect.left - desktopRect.left
        maxLeft == vp.width - updatedRect.width
    IN clamp(relativeLeft, padding, Max(padding, maxLeft))

\* the left ensureWindowInViewport gives a window measured as updatedRect
newLeft(updatedRect, vp) ==
    LET padding == viewportPadding
        relativeLeft == updatedRect.left - desktopRect.left
        maxLeft == vp.width - updatedRect.width - padding
    IN clamp(relativeLeft, padding, Max(padding, maxLeft))

\* the top ensureWindowInViewport gives a window measured as updatedRect
newTop(updatedRect, vp) ==
    LET padding == viewportPadding
        relativeTop == updatedRect.top - desktopRect.top
        maxTop == vp.height - updatedRect.height - padding
    IN clamp(relativeTop, menuBarHeight + padding,
             Max(menuBarHeight + padding, maxTop))

ensureWindowInViewport(s, w, vp) ==
    IF "maximized" \in s.classList[w] \/ IsHidden(s, w) THEN s
    ELSE
    LET padding == viewportPadding
        maxWidth == vp.width - padding * 2
        maxHeight == vp.height - menuBarHeight - padding * 2
        s1 == IF maxWidth > 0
              THEN [s EXCEPT !.style[w].width =
                        Min(getBoundingClientRect(s, w, vp).width, maxWidth)]
              ELSE s
        s2 == IF maxHeight > 0
              THEN [s1 EXCEPT !.style[w].height =
                        Min(getBoundingClientRect(s1, w, vp).height, maxHeight)]
              ELSE s1
        updatedRect == getBoundingClientRect(s2, w, vp)
    IN [s2 EXCEPT !.style[w].left = newLeft(updatedRect, vp),
                  !.style[w].top = newTop(updatedRect, vp)]

RECURSIVE ensureEach(_, _, _)
ensureEach(s, ws, vp) ==
    IF ws = {} THEN s
    ELSE LET w == CHOOSE x \in ws : TRUE
         IN ensureEach(ensureWindowInViewport(s, w, vp), ws \ {w}, vp)

ensureAllWindowsInViewport(s, vp) == ensureEach(s, Registered, vp)

openWindow(s, appName, vp) ==
    IF appName \notin Registered THEN s
    ELSE
    LET s1 == IF s.windows[appName].state = "minimized"
              THEN [s EXCEPT !.classList[appName] = @ \ {"minimized"},
                             !.windows[appName].state = "open"]
              ELSE s
        s2 == IF s1.windows[appName].state = "closed"
              THEN [s1 EXCEPT !.classList[appName] = @ \cup {"active"},
                              !.windows[appName].state = "open"]
              ELSE s1
        s3 == bringToFront(s2, appName)
        s4 == ensureWindowInViewport(s3, appName, vp)
    IN updateDockIcon(s4, appName, TRUE)

\* closeWindow that forgets the maximized flag
closeWindowKeepingMaximized(s, appName) ==
    IF appName \notin Registered THEN s
    ELSE updateDockIcon(
            [s EXCEPT !.classList[appName] = @ \ {"active", "minimized"},
                      !.windows[appName].state = "closed"],
            appName, FALSE)

\* closeWindow that leaves the dock icon as it is
closeWindowKeepingDock(s, appName) ==
    IF appName \notin Registered THEN s
    ELSE [s EXCEPT !.classList[appName] = @ \ {"active", "maximized", "minimized"},
                   !.windows[appName].state = "closed"]

closeWindow(s, appName) ==
    IF appName \notin Registered THEN s
    ELSE updateDockIcon(
            [s EXCEPT !.classList[appName] = @ \ {"active", "maximized", "minimized"},
                      !.windows[appName].state = "closed"],
            appName, FALSE)

\* minimizeWindow that updates the dock icon before it looks the name up
minimizeWindowDockFirst(s, appName) ==
    LET s1 == updateDockIcon(s, appName, TRUE)
    IN IF appName \notin Registered THEN s1
       ELSE [s1 EXCEPT !.classList[appName] =
                           (@ \cup {"minimized"}) \ {"active", "maximized"},
                       !.windows[appName].state = "minimized"]

minimizeWindow(s, appName) ==
    IF appName \notin Registered THEN s
    ELSE updateDockIcon(
            [s EXCEPT !.classList[appName] = (@ \cup {"minimized"}) \ {"active", "maximized"},
                      !.windows[appName].state = "minimized"],
            appName, TRUE)

maximizeWindow(s, appName, vp) ==
    IF appName \notin Registered THEN s
    ELSE IF "maximized" \in s.classList[appName]
    THEN \* restore
         LET originalPos == s.windows[appName].originalPosition
             originalSize == s.windows[appName].originalSize
             s1 == [s EXCEPT !.classList[appName] = @ \ {"maximized"}]
             s2 == IF Truthy(originalPos.x) /\ Truthy(originalPos.y)
                   THEN [s1 EXCEPT !.style[appName].left = originalPos.x,
                                   !.style[appName].top = originalPos.y]
                   ELSE s1
             s3 == IF Truthy(originalSize.width) /\ Truthy(originalSize.height)
                   THEN [s2 EXCEPT !.style[appName].width = originalSize.width,
                                   !.style[appName].height = originalSize.height]
                   ELSE s2
         IN ensureWindowInViewport(s3, appName, vp)
    ELSE \* maximize
         LET rect == getBoundingClientRect(s, appName, vp)
         IN [s EXCEPT !.windows[appName].originalPosition = [x |-> rect.left, y |-> rect.top],
                      !.windows[appName].originalSize =
                          [width |-> rect.width, height |-> rect.height],
                      !.classList[appName] = @ \cup {"maximized"}]

\* toggleWindow that minimizes a window that is open
toggleWindowMinimizing(s, appName, vp) ==
    IF appName \notin Registered THEN s
    ELSE IF s.windows[appName].state \in {"closed", "minimized"}
    THEN openWindow(s, appName, vp)
    ELSE minimizeWindow(s, appName)

toggleWindow(s, appName, vp) ==
    IF appName \notin Registered THEN s
    ELSE IF s.windows[appName].state \in {"closed", "minimized"}
    THEN openWindow(s, appName, vp)
    ELSE IF s.windows[appName].state \in {"open", "maximized"}
    THEN bringToFront(s, appName)
    ELSE s

-----------------------------------------------------------------------------
(* Initial state: the state the constructor leaves (init(), lines 21-63) *)

\* the registry and the page before openWindow('about')
Blank ==
    [windows |-> [w \in Registered |->
                    [state |-> "closed",
                     originalPosition |-> [x |-> 0, y |-> 0],
                     originalSize |-> [width |-> 0, height |-> 0]]],
     classList |-> [w \in Registered |-> {}],
     style |-> [w \in Registered |->
                    [left |-> InitialBox(w).left, top |-> InitialBox(w).top,
                     width |-> InitialBox(w).width, height |-> InitialBox(w).height,
                     zIndex |-> 0]],
     activeWindow |-> null,
     maxZIndex |-> ZSeed,
     dockActive |-> [n \in DockApps |-> FALSE]]

Did(op, name, x, y) == [op |-> op, name |-> name, x |-> x, y |-> y]

Init ==
    /\ viewport \in Viewports
    /\ LET s == openWindow(ensureAllWindowsInViewport(Blank, viewport), "about", viewport)
       IN /\ windows = s.windows
          /\ classList = s.classList
          /\ style = s.style
          /\ activeWindow = s.activeWindow
          /\ maxZIndex = s.maxZIndex
          /\ dockActive = s.dockActive
    /\ dragging = FALSE
    /\ dragOffset = [x |-> 0, y |-> 0]
    /\ currentDraggedWindow = null
    /\ resizing = FALSE
    /\ resizeTarget = null
    /\ resizeDirection = null
    /\ resizeStart = null
    /\ events = 0
    /\ last = Did("init", "about", 0, 0)

session == <<dragging, dragOffset, currentDraggedWindow,
             resizing, resizeTarget, resizeDirection, resizeStart>>


-----------------------------------------------------------------------------
(* The public methods, called with any name *)

Open(n) ==
    /\ Apply(openWindow(Cur, n, viewport))
    /\ last' = Did("open", n, 0, 0)
    /\ UNCHANGED <<session, viewport, events>>

Close(n) ==
    /\ Apply(closeWindow(Cur, n))
    /\ last' = Did("close", n, 0, 0)
    /\ UNCHANGED <<session, viewport, events>>

Minimize(n) ==
    /\ Apply(minimizeWindow(Cur, n))
    /\ last' = Did("minimize", n, 0, 0)
    /\ UNCHANGED <<session, viewport, events>>

Maximize(n) ==
    /\ Apply(maximizeWindow(Cur, n, viewport))
    /\ last' = Did("maximize", n, 0, 0)
    /\ UNCHANGED <<session, viewport, events>>

Toggle(n) ==
    /\ Apply(toggleWindow(Cur, n, viewport))
    /\ last' = Did("toggle", n, 0, 0)
    /\ UNCHANGED <<session, viewport, events>>

BringToFront(n) ==
    /\ Apply(bringToFront(Cur, n))
    /\ last' = Did("bringToFront", n, 0, 0)
    /\ UNCHANGED <<session, viewport, events>>

EnsureAll ==
    /\ Apply(ensureAllWindowsInViewport(Cur, viewport))
    /\ last' = Did("ensureAll", null, 0, 0)
    /\ UNCHANGED <<session, viewport, events>>

-----------------------------------------------------------------------------
(* Pointer and viewport events *)

\* the title bar's mousedown storing the position of a maximized window too
TitlebarMouseDownStoringAlways(w, grab) ==
    /\ ~IsHidden(Cur, w)
    /\ LET s1 == bringToFront(Cur, w)
           rect == getBoundingClientRect(s1, w, viewport)
           clientX == rect.left + grab.x
           clientY == rect.top + grab.y
           s2 == [s1 EXCEPT !.windows[w].originalPosition =
                                [x |-> rect.left, y |-> rect.top]]
       IN /\ Apply(s2)
          /\ dragging' = TRUE
          /\ currentDraggedWindow' = w
          /\ dragOffset' = [x |-> clientX - rect.left, y |-> clientY - rect.top]
          /\ last' = Did("dragStart", w, 0, 0)
    /\ UNCHANGED <<resizing, resizeTarget, resizeDirection, resizeStart, viewport, events>>

\* mousedown on the title bar of a displayed window, not on a control button
TitlebarMouseDown(w, grab) ==
    /\ ~IsHidden(Cur, w)
    /\ LET s1 == bringToFront(Cur, w)
           rect == getBoundingClientRect(s1, w, viewport)
           clientX == rect.left + grab.x
           clientY == rect.top + grab.y
           s2 == IF "maximized" \notin s1.classList[w]
                 THEN [s1 EXCEPT !.windows[w].originalPosition =
                                     [x |-> rect.left, y |-> rect.top]]
                 ELSE s1
       IN /\ Apply(s2)
          /\ dragging' = TRUE
          /\ currentDraggedWindow' = w
          /\ dragOffset' = [x |-> clientX - rect.left, y |-> clientY - rect.top]
          /\ last' = Did("dragStart", w, 0, 0)
    /\ UNCHANGED <<resizing, resizeTarget, resizeDirection, resizeStart, viewport, events>>

\* the point of a resize handle the pointer presses: on the edge the handle moves
HandlePoint(rect, direction) ==
    [x |-> IF includes(direction, "right") THEN rect.left + rect.width ELSE rect.left,
     y |-> IF includes(direction, "bottom") THEN rect.top + rect.height ELSE rect.top]

\* the handle's mousedown without its test for a maximized window
HandleMouseDownOnMaximized(w, direction) ==
    /\ ~IsHidden(Cur, w)
    /\ LET s1 == bringToFront(Cur, w)
           rect == getBoundingClientRect(s1, w, viewport)
           e == HandlePoint(rect, direction)
       IN /\ Apply(s1)
          /\ resizing' = TRUE
          /\ resizeTarget' = w
          /\ resizeDirection' = direction
          /\ resizeStart' = [x |-> e.x, y |-> e.y,
                             width |-> rect.width, height |-> rect.height,
                             left |-> rect.left, top |-> rect.top]
          /\ last' = Did(IF "maximized" \in classList[w]
                         THEN "resizeIgnored" ELSE "resizeStart", w, 0, 0)
    /\ UNCHANGED <<dragging, dragOffset, currentDraggedWindow, viewport, events>>

\* mousedown on one of the eight resize handles of a displayed window
HandleMouseDown(w, direction) ==
    /\ ~IsHidden(Cur, w)
    /\ IF "maximized" \in classList[w]
       THEN /\ last' = Did("resizeIgnored", w, 0, 0)
            /\ UNCHANGED <<windows, classList, style, activeWindow, maxZIndex,
                           dockActive, session>>
       ELSE /\ LET s1 == bringToFront(Cur, w)
                   rect == getBoundingClientRect(s1, w, viewport)
                   e == HandlePoint(rect, direction)
               IN /\ Apply(s1)
                  /\ resizing' = TRUE
                  /\ resizeTarget' = w
                  /\ resizeDirection' = direction
                  /\ resizeStart' = [x |-> e.x, y |-> e.y,
                                     width |-> rect.width, height |-> rect.height,
                                     left |-> rect.left, top |-> rect.top]
                  /\ last' = Did("resizeStart", w, 0, 0)
            /\ UNCHANGED <<dragging, dragOffset, currentDraggedWindow>>
    /\ UNCHANGED <<viewport, events>>

\* handleResize(e): the box it writes to the resize target's style
handleResize(start, direction, clientX, clientY, vp) ==
    LET dx == clientX - start.x
        dy == clientY - start.y
        min == getMinDimensions(vp)
        w0 == IF includes(direction, "left") THEN start.width - dx
              ELSE IF includes(direction, "right") THEN start.width + dx
              ELSE start.width
        l0 == IF includes(direction, "left") THEN start.left + dx ELSE start.left
        h0 == IF includes(direction, "top") THEN start.height - dy
              ELSE IF includes(direction, "bottom") THEN start.height + dy
              ELSE start.height
        t0 == IF includes(direction, "top") THEN start.top + dy ELSE start.top
        w1 == Max(min.width, w0)
        h1 == Max(min.height, h0)
        w2 == IF l0 < 0 THEN w1 + l0 ELSE w1
        l2 == IF l0 < 0 THEN 0 ELSE l0
        h2 == IF t0 < menuBarHeight THEN h1 + (t0 - menuBarHeight) ELSE h1
        t2 == IF t0 < menuBarHeight THEN menuBarHeight ELSE t0
        w3 == IF l2 + w2 > vp.width THEN vp.width - l2 ELSE w2
        h3 == IF t2 + h2 > vp.height THEN vp.height - t2 ELSE h2
    IN [left |-> l2, top |-> t2, width |-> w3, height |-> h3]

\* element.style.width = `${value}px` (and height): a negative length is not
\* a valid declaration, and the style keeps the value it had
styleLength(current, value) == IF value >= 0 THEN value ELSE current

\* mousemove while a resize session is open
ResizeMove(px, py) ==
    /\ resizing /\ resizeTarget # null
    /\ LET box == handleResize(resizeStart, resizeDirection, px, py, viewport)
       IN style' = [style EXCEPT ![resizeTarget].width = styleLength(@, box.width),
                                 ![resizeTarget].height = styleLength(@, box.height),
                                 ![resizeTarget].left = box.left,
                                 ![resizeTarget].top = box.top]
    /\ events' = events + 1
    /\ last' = Did("resizeMove", resizeTarget, px, py)
    /\ UNCHANGED <<windows, classList, activeWindow, maxZIndex, dockActive,
                   session, viewport>>

\* the viewport constraint of a drag without its lower bounds
constrainToViewportFromAbove(newX, newY, windowWidth, windowHeight, vp) ==
    LET maxX == vp.width - windowWidth
        maxY == vp.height - windowHeight
    IN [left |-> Min(newX, maxX), top |-> Min(newY, maxY)]

\* "Constrain to viewport": the left and top a drag move writes
constrainToViewport(newX, newY, windowWidth, windowHeight, vp) ==
    LET maxX == vp.width - windowWidth
        maxY == vp.height - windowHeight
    IN [left |-> Max(0, Min(newX, maxX)),
        top |-> Max(menuBarHeight, Min(newY, maxY))]

\* the drag branch of the mousemove handler: the manager and page after it,
\* and the drag offset it leaves
dragMove(s, w, offset, clientX, clientY, vp) ==
    LET wasMaximized == "maximized" \in s.classList[w]
        s1 == IF wasMaximized THEN maximizeWindow(s, w, vp) ELSE s
        rect == getBoundingClientRect(s1, w, vp)
        off == IF wasMaximized
               THEN [x |-> clientX - rect.width \div 2, y |-> clientY - TearOffY]
               ELSE offset
        newX == clientX - off.x
        newY == clientY - off.y
        to == constrainToViewport(newX, newY, rect.width, rect.height, vp)
    IN [page |-> [s1 EXCEPT !.style[w].left = to.left, !.style[w].top = to.top],
        dragOffset |-> off]

\* mousemove while a drag session is open and no resize session is
DragMove(px, py) ==
    /\ ~(resizing /\ resizeTarget # null)
    /\ dragging /\ currentDraggedWindow # null
    \* rect.width / 2 stays a whole number of pixels
    /\ "maximized" \in classList[currentDraggedWindow] =>
          getBoundingClientRect(maximizeWindow(Cur, currentDraggedWindow, viewport),
                                currentDraggedWindow, viewport).width % 2 = 0
    /\ LET r == dragMove(Cur, currentDraggedWindow, dragOffset, px, py, viewport)
       IN /\ Apply(r.page)
          /\ dragOffset' = r.dragOffset
    /\ events' = events + 1
    /\ last' = Did("dragMove", currentDraggedWindow, px, py)
    /\ UNCHANGED <<dragging, currentDraggedWindow, resizing, resizeTarget,
                   resizeDirection, resizeStart, viewport>>

\* mouseup anywhere
MouseUp ==
    /\ dragging \/ resizing
    /\ dragging' = FALSE
    /\ currentDraggedWindow' = IF dragging THEN null ELSE currentDraggedWindow
    /\ resizing' = FALSE
    /\ resizeTarget' = IF resizing THEN null ELSE resizeTarget
    /\ resizeDirection' = IF resizing THEN null ELSE resizeDirection
    /\ resizeStart' = IF resizing THEN null ELSE resizeStart
    /\ last' = Did("mouseUp", null, 0, 0)
    /\ UNCHANGED <<windows, classList, style, activeWindow, maxZIndex, dockActive,
                   dragOffset, viewport, events>>

\* the window's resize event: the viewport has a new size
ViewportResize(vp) ==
    /\ vp # viewport
    /\ viewport' = vp
    /\ Apply(ensureAllWindowsInViewport(Cur, vp))
    /\ events' = events + 1
    /\ last' = Did("viewportResize", null, 0, 0)
    /\ UNCHANGED session

-----------------------------------------------------------------------------
(* Spec: the methods, called with any name, and the starts and ends of     *)
(* gestures, on two windows.  The stacking counter is explored up to       *)
(* ZSeed + MaxRaises.                                                      *)

SpecDirections == {"left", "bottom-right"}

CanRaise == maxZIndex < ZSeed + MaxRaises

Next ==
    \/ \E n \in Names : (n \in Registered => CanRaise) /\ Open(n)
    \/ \E n \in Names : Close(n)
    \/ \E n \in Names : Minimize(n)
    \/ \E n \in Names : Maximize(n)
    \/ \E n \in Names : (n \in Registered => CanRaise) /\ Toggle(n)
    \/ \E n \in Names : (n \in Registered => CanRaise) /\ BringToFront(n)
    \/ EnsureAll
    \/ \E w \in Registered, grab \in GrabPoints : CanRaise /\ TitlebarMouseDown(w, grab)
    \/ \E w \in Registered, d \in SpecDirections : CanRaise /\ HandleMouseDown(w, d)
    \/ MouseUp

Spec == Init /\ [][Next]_vars

-----------------------------------------------------------------------------
(* SpecGeometry: the gestures on one window, with every handle and a grid  *)
(* of pointer positions, viewport changes and maximize.  Explored up to    *)
(* MaxGestures raises of the stacking counter and MaxEvents pointer moves  *)
(* and viewport changes.                                                   *)

GeometryWindow == "about"

CanStart == maxZIndex < ZSeed + MaxGestures
CanMove == events < MaxEvents

NextGeometry ==
    \/ Maximize(GeometryWindow)
    \/ \E grab \in GrabPoints : CanStart /\ TitlebarMouseDown(GeometryWindow, grab)
    \/ \E d \in Directions : CanStart /\ HandleMouseDown(GeometryWindow, d)
    \/ \E px \in PointerXs, py \in PointerYs : CanMove /\ ResizeMove(px, py)
    \/ \E px \in PointerXs, py \in PointerYs : CanMove /\ DragMove(px, py)
    \/ MouseUp
    \/ \E vp \in Viewports : CanMove /\ ViewportResize(vp)

SpecGeometry == Init /\ [][NextGeometry]_vars

-----------------------------------------------------------------------------
(* Properties *)

Active(w) == "active" \in classList[w]
Maximized(w) == "maximized" \in classList[w]
\* the window is on screen with the geometry its style gives it
FreeStanding(w) == ~IsHidden(Cur, w) /\ ~Maximized(w)
Box(s, w) == [left |-> s.style[w].left, top |-> s.style[w].top,
              width |-> s.style[w].width, height |-> s.style[w].height]
MethodOps == {"open", "close", "minimize", "maximize", "toggle", "bringToFront"}
\* the viewport leaves room inside the padding and below the menu bar
HasWorkingArea(vp) ==
    /\ vp.width - viewportPadding * 2 > 0
    /\ vp.height - menuBarHeight - viewportPadding * 2 > 0

\* C1: in every reachable state at most one window carries the active flag.
AtMostOneActive ==
    Cardinality({w \in Registered : Active(w)}) <= 1

\* C1 witness: bringToFront has moved the flag from one open window to another.
AtMostOneActiveWitness ==
    \E w, o \in Registered :
        /\ w # o
        /\ windows[w].state = "open" /\ windows[o].state = "open"
        /\ Active(w) /\ ~Active(o)
        /\ style[o].zIndex > ZSeed /\ style[w].zIndex > style[o].zIndex

\* C2: a step of bringToFront(w) on a registered window leaves w active and
\* above every other window; the stacking counter never decreases, and a
\* stack order given to a window is the counter's new value, above every
\* value given before.
StackingOrder ==
    [][ /\ maxZIndex' >= maxZIndex
        /\ \A w \in Registered :
              style'[w].zIndex # style[w].zIndex =>
                  /\ style'[w].zIndex = maxZIndex'
                  /\ style'[w].zIndex > maxZIndex
        /\ (last'.op = "bringToFront" /\ last'.name \in Registered) =>
              /\ "active" \in classList'[last'.name]
              /\ \A o \in Registered \ {last'.name} :
                    style'[last'.name].zIndex > style'[o].zIndex
      ]_vars

\* C2 witness: bringToFront has raised a window above one raised before it.
StackingOrderWitness ==
    /\ last.op = "bringToFront" /\ last.name \in Registered
    /\ \E o \in Registered \ {last.name} :
          style[o].zIndex > ZSeed /\ style[last.name].zIndex > style[o].zIndex

\* C3: no window whose lifecycle state is minimized carries the active flag.
MinimizedNeverActive ==
    \A w \in Registered : windows[w].state = "minimized" => ~Active(w)

\* C4: after open(w) the window is open, active and its dock indicator is
\* on; after minimize(w) it is minimized, not active and the indicator is
\* still on; after toggle(w) it is open and active; after close(w) it is
\* closed and the indicator is off.  (The constructor's openWindow('about')
\* is the scenario's first step.)
LifecycleScenario ==
    \A w \in Registered :
        last.name = w =>
            /\ last.op \in {"init", "open"} =>
                  windows[w].state = "open" /\ Active(w) /\ dockActive[w]
            /\ last.op = "minimize" =>
                  windows[w].state = "minimized" /\ ~Active(w) /\ dockActive[w]
            /\ last.op = "toggle" =>
                  windows[w].state = "open" /\ Active(w)
            /\ last.op = "close" =>
                  windows[w].state = "closed" /\ ~dockActive[w]

\* C4 witness: a window that was opened and raised again is closed at the end.
LifecycleScenarioWitness ==
    /\ last.op = "close" /\ last.name = "projects"
    /\ windows["projects"].state = "closed"
    /\ style["projects"].zIndex > ZSeed + 2

DragClampAsClaimed ==
    last.op = "dragMove" =>
        LET rect == getBoundingClientRect(Cur, last.name, viewport)
        IN /\ 0 <= style[last.name].left
           /\ style[last.name].left <= viewport.width - rect.width
           /\ menuBarHeight <= style[last.name].top
           /\ style[last.name].top <= viewport.height - rect.height

\* C6 amended: after a drag move the window's left lies in
\* [0, max(0, W - windowWidth)] and its top in
\* [chromeHeight, max(chromeHeight, H - windowHeight)]: the claimed ranges
\* whenever they are not empty, their lower end otherwise.
DragClamp ==
    last.op = "dragMove" =>
        LET rect == getBoundingClientRect(Cur, last.name, viewport)
        IN /\ 0 <= style[last.name].left
           /\ style[last.name].left <= Max(0, viewport.width - rect.width)
           /\ menuBarHeight <= style[last.name].top
           /\ style[last.name].top <= Max(menuBarHeight, viewport.height - rect.height)

\* C6 witness: a drag move whose pointer is past the right edge leaves the
\* window against it.
DragClampWitness ==
    /\ last.op = "dragMove" /\ FreeStanding(last.name)
    /\ last.x - dragOffset.x > viewport.width - style[last.name].width
    /\ style[last.name].width < viewport.width
    /\ style[last.name].left = viewport.width - style[last.name].width

\* C7: after a resize move the window's width and height are not below the
\* minimums getMinDimensions gives for the viewport (stated for the viewports
\* with a working area, where no degenerate size is to blame).
ResizeMinimum ==
    (last.op = "resizeMove" /\ HasWorkingArea(viewport)) =>
        /\ style[last.name].width >= getMinDimensions(viewport).width
        /\ style[last.name].height >= getMinDimensions(viewport).height

\* C8: maximize followed by maximize again gives a window that is on screen
\* and not maximized the left, top, width and height it had before (stated
\* for the viewports with a working area).
MaximizeRoundTrip ==
    \A w \in Registered :
        (FreeStanding(w) /\ HasWorkingArea(viewport)) =>
            Box(maximizeWindow(maximizeWindow(Cur, w, viewport), w, viewport), w)
                = Box(Cur, w)

\* C9: the containment pass run twice in a row gives every window the same
\* geometry as run once, from every reachable geometry and for every viewport.
ContainmentIdempotent ==
    \A vp \in Viewports :
        LET once == ensureAllWindowsInViewport(Cur, vp)
        IN ensureAllWindowsInViewport(once, vp) = once

\* C9 witness: a viewport change whose pass has shrunk and moved a window.
ContainmentIdempotentWitness ==
    /\ last.op = "viewportResize"
    /\ \E w \in Registered :
          /\ FreeStanding(w)
          /\ style[w].width = viewport.width - viewportPadding * 2
          /\ style[w].left = viewportPadding
          /\ ensureAllWindowsInViewport(Cur, viewport) = Cur

\* the window lies inside the padded working area of the viewport
InWorkingArea(w) ==
    /\ style[w].left >= viewportPadding
    /\ style[w].left + style[w].width <= viewport.width - viewportPadding
    /\ style[w].top >= menuBarHeight + viewportPadding
    /\ style[w].top + style[w].height <= viewport.height - viewportPadding

\* C10: a viewport change to a size whose padded working area is not empty
\* leaves every window that is on screen and not maximized inside
\* [padding, W - padding] x [chromeHeight + padding, H - padding], and the
\* pass makes no window wider or taller.
ViewportContainment ==
    [][ last'.op = "viewportResize" =>
          /\ HasWorkingArea(viewport') =>
                 \A w \in Registered : FreeStanding(w)' => InWorkingArea(w)'
          /\ \A w \in Registered :
                /\ style'[w].width <= style[w].width
                /\ style'[w].height <= style[w].height
      ]_vars

\* C10 witness: the viewport has shrunk to 600 x 400 and a window that was
\* wider than its working area lies inside [12, 588] x [42, 388].
ViewportContainmentWitness ==
    /\ last.op = "viewportResize"
    /\ viewport = [width |-> 600, height |-> 400]
    /\ \E w \in Registered :
          /\ FreeStanding(w)
          /\ style[w].left = 12 /\ style[w].left + style[w].width = 588
          /\ style[w].top >= 42 /\ style[w].top + style[w].height <= 388

\* C11: a drag move on a maximized window clears its maximized flag and
\* leaves the pointer at the window's horizontal centre (left + width/2 =
\* pointer x) and 50px below its top edge (top = pointer y - 50), on each
\* axis where neither that position nor the one the handler computes is cut
\* by the viewport clamp.
TearOff ==
    [][ (last'.op = "dragMove" /\ Maximized(last'.name)) =>
          LET w == last'.name
              half == style'[w].width \div 2
              maxX == viewport.width - style'[w].width
              maxY == viewport.height - style'[w].height
          IN /\ "maximized" \notin classList'[w]
             /\ (/\ 0 <= last'.x - half /\ last'.x - half <= maxX
                 /\ half <= maxX)
                   => style'[w].left + half = last'.x
             /\ (/\ menuBarHeight <= last'.y - TearOffY /\ last'.y - TearOffY <= maxY
                 /\ menuBarHeight <= TearOffY /\ TearOffY <= maxY)
                   => style'[w].top = last'.y - TearOffY
      ]_vars

\* C12: the dragging mode and the resizing mode are never both set.
SingleSession ==
    ~(dragging /\ resizing)

\* C13: close(w) on a registered window, whatever its lifecycle state and
\* flags, leaves it in state closed with its active, maximized and minimized
\* flags cleared and its dock indicator absent.
CloseClears ==
    /\ \A w \in Registered :
          LET s == closeWindow(Cur, w)
          IN /\ s.windows[w].state = "closed"
             /\ s.classList[w] \cap {"active", "maximized", "minimized"} = {}
             /\ ~s.dockActive[w]
    /\ (last.op = "close" /\ last.name \in Registered) =>
          /\ windows[last.name].state = "closed"
          /\ classList[last.name] \cap {"active", "maximized", "minimized"} = {}
          /\ ~dockActive[last.name]

\* C13 witness: a window that has been maximized is closed, while the other
\* window is open, maximized and active, the state close is about to clear.
CloseClearsWitness ==
    /\ last.op = "close" /\ last.name \in Registered
    /\ windows[last.name].state = "closed"
    /\ windows[last.name].originalSize.width > 0
    /\ \E o \in Registered \ {last.name} :
          /\ windows[o].state = "open" /\ Maximized(o) /\ Active(o) /\ dockActive[o]
          /\ closeWindow(Cur, o).classList[o] = {}

\* the lifecycle state, maximized flag, geometry and restore bounds of a window
Standing(s, w) ==
    [windows |-> s.windows[w], maximized |-> "maximized" \in s.classList[w],
     box |-> Box(s, w)]

\* C14: a step of toggle(w) on a window that is open (maximized or not)
\* leaves w's lifecycle state, maximized flag, geometry and restore bounds and
\* every other window's state and geometry as they were, w being active and in
\* front; on a closed or minimized window it has the effect of open(w).
ToggleFrame ==
    [][ (last'.op = "toggle" /\ last'.name \in Registered) =>
          LET w == last'.name
          IN IF windows[w].state \in {"closed", "minimized"}
             THEN Cur' = openWindow(Cur, w, viewport)
             ELSE /\ Standing(Cur, w) = Standing(Cur', w)
                  /\ \A o \in Registered \ {w} :
                        /\ Standing(Cur, o) = Standing(Cur', o)
                        /\ style'[o].zIndex = style[o].zIndex
                  /\ "active" \in classList'[w]
                  /\ style'[w].zIndex = maxZIndex' /\ maxZIndex' = maxZIndex + 1
                  /\ dockActive' = dockActive
      ]_vars

\* C14 witness: toggle has raised a maximized window over the window that
\* was in front.
ToggleFrameWitness ==
    /\ last.op = "toggle" /\ last.name \in Registered
    /\ Maximized(last.name) /\ Active(last.name)
    /\ windows[last.name].state = "open"
    /\ style[last.name].zIndex = maxZIndex
    /\ \E o \in Registered \ {last.name} :
          windows[o].state = "open" /\ style[o].zIndex = maxZIndex - 1

\* C15 as claimed: a pointer-down on the title bar of a maximized window
\* records the geometry the window has at that moment as its restore bounds.
DragStartRecordsMaximized ==
    [][ (last'.op = "dragStart" /\ Maximized(last'.name)) =>
          LET rect == getBoundingClientRect(Cur, last'.name, viewport)
          IN /\ windows'[last'.name].originalPosition = [x |-> rect.left, y |-> rect.top]
             /\ windows'[last'.name].originalSize =
                    [width |-> rect.width, height |-> rect.height]
      ]_vars

\* C15 amended: a pointer-down on the title bar of a window that is not
\* maximized records its left and top as the position of its restore bounds
\* and leaves their size alone; on a maximized window it leaves the restore
\* bounds as they are.
DragStartRecords ==
    [][ last'.op = "dragStart" =>
          LET w == last'.name
          IN IF Maximized(w)
             THEN windows'[w] = windows[w]
             ELSE /\ windows'[w].originalPosition =
                        [x |-> style[w].left, y |-> style[w].top]
                  /\ windows'[w].originalSize = windows[w].originalSize
                  /\ windows'[w].state = windows[w].state
      ]_vars

\* C15 witness: a drag has started on a window that was never maximized: the
\* restore bounds hold its position and no size.
DragStartRecordsWitness ==
    /\ last.op = "dragStart" /\ ~Maximized(last.name)
    /\ windows[last.name].originalPosition =
           [x |-> style[last.name].left, y |-> style[last.name].top]
    /\ style[last.name].left > 0
    /\ windows[last.name].originalSize = [width |-> 0, height |-> 0]

\* C16: a pointer-down on a resize handle of a maximized window starts no
\* session and changes no stack order, counter, flag, tracker or geometry;
\* with no session open before it, no pointer move follows it.
MaximizedHandleIgnored ==
    [][ /\ last'.op = "resizeIgnored" =>
              UNCHANGED <<windows, classList, style, activeWindow, maxZIndex,
                          dockActive, session, viewport>>
        /\ (last.op = "resizeIgnored" /\ ~resizing /\ ~dragging) =>
              last'.op \notin {"resizeMove", "dragMove"}
      ]_vars

\* C16 witness: the handle of a maximized window was pressed with no session
\* open, and none is open.
MaximizedHandleIgnoredWitness ==
    /\ last.op = "resizeIgnored" /\ Maximized(last.name)
    /\ ~resizing /\ ~dragging /\ resizeTarget = null
    /\ style[last.name].zIndex = ZSeed + 1

\* C17: after a resize move the window lies in the viewport: left >= 0,
\* top >= chromeHeight, left + width <= W and top + height <= H (stated for
\* the viewports with a working area).
ResizeContainment ==
    (last.op = "resizeMove" /\ HasWorkingArea(viewport)) =>
        /\ style[last.name].left >= 0
        /\ style[last.name].top >= menuBarHeight
        /\ style[last.name].left + style[last.name].width <= viewport.width
        /\ style[last.name].top + style[last.name].height <= viewport.height

\* C18: no window that is closed or minimized carries the maximized flag.
MaximizedOnlyOpen ==
    \A w \in Registered : Maximized(w) => windows[w].state = "open"

\* C19: a window's dock indicator is present exactly when its lifecycle
\* state is not closed.
DockIndicator ==
    \A w \in Registered : dockActive[w] <=> windows[w].state # "closed"

\* C19 witness: a close has taken one window's indicator away while the
\* other window is minimized and keeps its indicator.
DockIndicatorWitness ==
    /\ last.op = "close" /\ last.name \in Registered
    /\ ~dockActive[last.name] /\ style[last.name].zIndex > ZSeed
    /\ \E o \in Registered \ {last.name} :
          windows[o].state = "minimized" /\ dockActive[o]

\* C20: the tracked active-window name names a window exactly when that
\* window carries the active flag, and is null when no window does.
ActiveTracker ==
    /\ \A w \in Registered : activeWindow = w <=> Active(w)
    /\ (\A w \in Registered : ~Active(w)) => activeWindow = null

\* C21: after a resize move from a handle containing 'left' the window's
\* right edge (left + width) is where it was at the start of the gesture, and
\* from a handle containing 'top' its bottom edge (top + height) is (stated
\* for the viewports with a working area and the pointer inside the viewport).
OppositeEdgeFixed ==
    (/\ last.op = "resizeMove" /\ resizing /\ HasWorkingArea(viewport)
     /\ 0 <= last.x /\ last.x <= viewport.width
     /\ menuBarHeight <= last.y /\ last.y <= viewport.height) =>
        /\ includes(resizeDirection, "left") =>
              style[last.name].left + style[last.name].width
                  = resizeStart.left + resizeStart.width
        /\ includes(resizeDirection, "top") =>
              style[last.name].top + style[last.name].height
                  = resizeStart.top + resizeStart.height

====
